---- MODULE Spec2Model ----
(***************************************************************************)
(* State-machine model of the three PyIRI command-line scripts:            *)
(*   pyiri_runner.py      (Single/Global Runner)                           *)
(*   pyiri_year_plot.py   (Year Monthly Generator)                         *)
(*   pyiri_year_daily.py  (Year Daily Generator)                           *)
(* The external library (PyIRI) and matplotlib are the environment: a call *)
(* of the model either raises or returns arrays whose shapes are drawn     *)
(* from small sets; arrays are represented by their shape and, where a     *)
(* value is recorded, by a symbolic element (which call, which index).     *)
(***************************************************************************)
EXTENDS Integers, Sequences, FiniteSets, TLC

VARIABLES
    script,        \* which entry point runs: "runner", "year_plot", "year_daily"
    args,          \* argparse namespace
    pc,            \* position of main(): a stage label, "done" or "crashed"
    calls,         \* calls of the external model made so far, in order
    log,           \* messages printed to standard output (the ones that matter)
    files,         \* paths of the files written by this run
    \* ---- pyiri_runner.py locals
    lons, lats,    \* 1-D grid axes (global map)
    alon, alat,    \* flattened longitudes / latitudes passed to the model
    alon_2d,       \* shape of the meshgrid, or None
    f2, e_peak,    \* shape of f2['fo'] (= 'hm', 'Nm') and of e_peak['Nm']
    edp, aalt, has_edp,
    fo_data,       \* the row extracted for the global plots
    tec_data,      \* the part of the vTEC vector that was plotted
    \* ---- year scripts' locals
    month,         \* loop variable of "for month in range(1, 13)"
    dates, f107_values,            \* pyiri_year_daily: generate_f107_timeseries
    nmf2_values, nmf2_min, nmf2_max,
    all_dates, all_f107, all_nmf2, model_min, model_max,   \* pyiri_year_plot
    nm_data, nm_min_val, nm_max_val,                       \* pyiri_year_plot
    csv,           \* rows of the CSV file written (header first)
    rng,           \* seed of np.random
    env            \* the library's behaviour so far: the outcome of the first
                   \* month (base) and how many months differed from it (devs)

vars == <<script, args, pc, calls, log, files, lons, lats, alon, alat, alon_2d,
          f2, e_peak, edp, aalt, has_edp, fo_data, tec_data,
          month, dates, f107_values, nmf2_values, nmf2_min, nmf2_max,
          all_dates, all_f107, all_nmf2, model_min, model_max,
          nm_data, nm_min_val, nm_max_val, csv, rng, env>>

runnerVars == <<lons, lats, alon, alat, alon_2d, f2, e_peak, edp, aalt,
                has_edp, fo_data, tec_data>>

yearVars == <<month, dates, f107_values, nmf2_values, nmf2_min, nmf2_max,
              all_dates, all_f107, all_nmf2, model_min, model_max,
              nm_data, nm_min_val, nm_max_val, csv, rng, env>>

\* Python's None, and a value that is present
None == [isNone |-> TRUE, v |-> <<>>]

Some(x) == [isNone |-> FALSE, v |-> x]

\* an outcome of a month's model calls: the shape returned for f2['Nm'], and
\* raise = k > 0 when the k-th call of the month raises
Outcome(k, s) == [raise |-> k, shape |-> s]

NoEnv == [set |-> FALSE, base |-> Outcome(0, <<>>), devs |-> 0]

(***************************************************************************)
(* numpy helpers, on shapes                                                *)
(***************************************************************************)
RECURSIVE Arange(_, _, _)
\* np.arange(start, stop, step) for step > 0
Arange(start, stop, step) ==
    IF start >= stop THEN <<>>
    ELSE <<start>> \o Arange(start + step, stop, step)

RECURSIVE Prod(_)
\* number of elements of an array of shape s
Prod(s) == IF s = <<>> THEN 1 ELSE Head(s) * Prod(Tail(s))

\* a[i] along an axis of length n is legal for -n <= i < n
IndexOK(i, n) == -n <= i /\ i < n

\* the index a (possibly negative) i stands for
Norm(i, n) == IF i < 0 THEN n + i ELSE i

(***************************************************************************)
(* pyiri_runner.py                                                         *)
(***************************************************************************)
HoursPerDay == 24

\* ahr = np.arange(0, 24, 1)
ahr == Arange(0, HoursPerDay, 1)

\* values given on the command line
Resolutions == {45, 50}

Hours == {-1, 12, 24}

Days == {15}

F107s == {100, 150}

ParameterLists == {{"foF2"}, {"all"}, {"hmF2", "NmF2"}, {"TEC"}}

RunnerArgs ==
    [global_map : BOOLEAN, lat : {40}, lon : {-100}, resolution : Resolutions,
     year : {2020}, month : {4}, day : Days, hour : Hours, f107 : F107s,
     parameters : ParameterLists,
     daily : BOOLEAN, profiles : BOOLEAN, vtec : BOOLEAN]

\* f"Global_{args.resolution}deg" or f"{args.lat}N_{args.lon}E"
RunnerLocation(a) ==
    IF a.global_map THEN <<"Global", a.resolution>> ELSE <<a.lat, a.lon>>

\* f"{args.year}{args.month:02d}{args.day:02d}_{args.hour:02d}UTC"
Timestamp(a) == <<a.year, a.month, a.day, a.hour>>

\* os.path.join(args.output, f'{kind}_{location_name}_{timestamp}.png')
RunnerPath(kind, a) == <<kind, RunnerLocation(a), Timestamp(a), "png">>

RECURSIVE Repeat(_, _)
Repeat(x, n) == IF n <= 0 THEN <<>> ELSE <<x>> \o Repeat(x, n - 1)

RECURSIVE Tile(_, _)
Tile(row, n) == IF n <= 0 THEN <<>> ELSE row \o Tile(row, n - 1)

RECURSIVE RepeatEach(_, _)
RepeatEach(col, n) ==
    IF col = <<>> THEN <<>> ELSE Repeat(Head(col), n) \o RepeatEach(Tail(col), n)

InitRunner ==
    /\ script = "runner"
    /\ args \in RunnerArgs
    /\ pc = "grid"
    /\ calls = <<>>
    /\ log = <<>>
    /\ files = {}
    /\ lons = <<>> /\ lats = <<>> /\ alon = <<>> /\ alat = <<>>
    /\ alon_2d = None
    /\ f2 = None /\ e_peak = None /\ edp = None /\ aalt = None
    /\ has_edp = FALSE
    /\ fo_data = None
    /\ tec_data = None
    /\ month = 0
    /\ dates = <<>> /\ f107_values = <<>>
    /\ nmf2_values = <<>> /\ nmf2_min = <<>> /\ nmf2_max = <<>>
    /\ all_dates = <<>> /\ all_f107 = <<>> /\ all_nmf2 = <<>>
    /\ model_min = <<>> /\ model_max = <<>>
    /\ nm_data = None /\ nm_min_val = None /\ nm_max_val = None
    /\ csv = None
    /\ rng = 0
    /\ env = NoEnv

\* lines 45-61: the grid
CreateGrid ==
    /\ script = "runner" /\ pc = "grid"
    /\ IF args.global_map
       THEN LET lo == Arange(-180, 180, args.resolution)
                la == Arange(-90, 90 + args.resolution, args.resolution)
            IN /\ lons' = lo
               /\ lats' = la
               /\ alon_2d' = Some(<<Len(la), Len(lo)>>)
               /\ alon' = Tile(lo, Len(la))
               /\ alat' = RepeatEach(la, Len(lo))
       ELSE /\ alon' = <<args.lon>>
            /\ alat' = <<args.lat>>
            /\ alon_2d' = None
            /\ UNCHANGED <<lons, lats>>
    /\ pc' = "calc"
    /\ UNCHANGED <<script, args, calls, log, files, f2, e_peak, edp, aalt,
                   has_edp, fo_data, tec_data>>
    /\ UNCHANGED yearVars

\* aalt = np.arange(60, 1000 + 10, 10)
RunnerAalt == Arange(60, 1000 + 10, 10)

UsesDailyFlagOnly(a) == a.daily

\* the entry point the runner uses (line 68)
UsesDaily(a) == a.daily \/ a.profiles \/ a.vtec

RunnerCallDefaultF107(a) ==
    IF UsesDaily(a)
    THEN [fn |-> "IRI_density_1day", year |-> a.year, month |-> a.month,
          day |-> a.day, ahr |-> ahr, alon |-> alon, alat |-> alat,
          aalt |-> Arange(60, 1000 + 10, 10), f107 |-> 100]
    ELSE [fn |-> "IRI_monthly_mean_par", year |-> a.year, month |-> a.month,
          ahr |-> ahr, alon |-> alon, alat |-> alat]

\* the call of the external model, with the arguments the runner passes
RunnerCall(a) ==
    IF UsesDaily(a)
    THEN [fn |-> "IRI_density_1day", year |-> a.year, month |-> a.month,
          day |-> a.day, ahr |-> ahr, alon |-> alon, alat |-> alat,
          aalt |-> RunnerAalt, f107 |-> a.f107]
    ELSE [fn |-> "IRI_monthly_mean_par", year |-> a.year, month |-> a.month,
          ahr |-> ahr, alon |-> alon, alat |-> alat]

\* lines 68-83: the calls of the external model one run makes: one branch of
\* the if, so one call
ModelCallsBoth(a) ==
    IF UsesDaily(a)
    THEN <<[fn |-> "IRI_monthly_mean_par", year |-> a.year, month |-> a.month,
            ahr |-> ahr, alon |-> alon, alat |-> alat], RunnerCall(a)>>
    ELSE <<RunnerCall(a)>>

ModelCalls(a) == <<RunnerCall(a)>>

\* shapes the library may return for f2['fo'], f2['hm'], f2['Nm'] over n locations
F2Shapes(n) ==
    {<<HoursPerDay, n>>, <<HoursPerDay, n, 2>>, <<HoursPerDay, n + 1>>,
     <<HoursPerDay>>, <<>>}

\* shapes the library may return for e_peak['Nm'], given that of f2['fo']
EPeakShapes(s) == {s, <<HoursPerDay>>}

\* shapes the library may return for edp over n locations and na altitudes
EdpShapes(n, na) ==
    {<<HoursPerDay, na, n>>, <<HoursPerDay, n, na>>, <<HoursPerDay, na, n + 1>>,
     <<HoursPerDay, na, n - 1>>, <<n, na>>, <<HoursPerDay, 5, 7>>, <<na>>}

\* lines 63-96: the model call, in its try block
Calculate ==
    /\ script = "runner" /\ pc = "calc"
    /\ calls' = calls \o ModelCalls(args)
    /\ \/ \* the call raises: "PyIRI calculation failed", return
          /\ log' = Append(log, "calculation_failed")
          /\ pc' = "done"
          /\ aalt' = IF UsesDaily(args) THEN Some(RunnerAalt) ELSE aalt
          /\ UNCHANGED <<f2, e_peak, edp, has_edp>>
       \/ \E s \in F2Shapes(Len(alon)) : \E es \in EPeakShapes(s) :
            /\ f2' = Some(s)
            /\ e_peak' = Some(es)
            /\ IF UsesDaily(args)
               THEN /\ aalt' = Some(RunnerAalt)
                    /\ \E ds \in EdpShapes(Len(alon), Len(RunnerAalt)) :
                         edp' = Some(ds)
                    /\ has_edp' = TRUE
               ELSE /\ edp' = None
                    /\ aalt' = None
                    /\ has_edp' = FALSE
            /\ log' = Append(log, "calculation_complete")
            /\ pc' = "plots"
    /\ UNCHANGED <<script, args, files, lons, lats, alon, alat, alon_2d,
                   fo_data, tec_data>>
    /\ UNCHANGED yearVars

ExtractRowFirstSolar(s, hour) ==
    IF Len(s) = 2
    THEN IF IndexOK(hour, s[1])
         THEN [what |-> "row", size |-> s[2], sel |-> <<Norm(hour, s[1])>>]
         ELSE [what |-> "raise", size |-> 0, sel |-> <<>>]
    ELSE IF Len(s) = 3
    THEN IF IndexOK(hour, s[1]) /\ s[3] >= 1
         THEN [what |-> "row", size |-> s[2], sel |-> <<Norm(hour, s[1]), 0>>]
         ELSE [what |-> "raise", size |-> 0, sel |-> <<>>]
    ELSE [what |-> "unexpected", size |-> 0, sel |-> <<>>]

\* lines 109-121: the row of f2['fo'] taken for the maps. what is "row" (with
\* its size and the indices it was taken at), "raise" or "unexpected".
ExtractRow(s, hour) ==
    IF Len(s) = 2
    THEN IF IndexOK(hour, s[1])
         THEN [what |-> "row", size |-> s[2], sel |-> <<Norm(hour, s[1])>>]
         ELSE [what |-> "raise", size |-> 0, sel |-> <<>>]
    ELSE IF Len(s) = 3
    THEN IF IndexOK(hour, s[1]) /\ s[3] >= 1
         THEN [what |-> "row", size |-> s[2],
               sel |-> <<Norm(hour, s[1]), s[3] - 1>>]
         ELSE [what |-> "raise", size |-> 0, sel |-> <<>>]
    ELSE [what |-> "unexpected", size |-> 0, sel |-> <<>>]

PlotsParameterNoAll(p, parameters) == p \in parameters

\* lines 134, 154, 174: is the map of parameter p plotted
PlotsParameter(p, parameters) == p \in parameters \/ "all" \in parameters

\* lines 133-191: the maps written for --parameters
ParameterPlots(a) ==
    {RunnerPath(p, a) : p \in {q \in {"foF2", "hmF2", "NmF2"} :
                                  PlotsParameter(q, a.parameters)}}

\* lines 101-191: global maps: extraction (in its try block) and the maps
GlobalPlots ==
    /\ script = "runner" /\ pc = "plots"
    /\ args.global_map /\ ~alon_2d.isNone
    /\ LET r == ExtractRow(f2.v, args.hour) IN
         IF r.what = "unexpected"
         THEN /\ log' = Append(log, "unexpected_shape")
              /\ pc' = "done"
              /\ UNCHANGED <<files, fo_data>>
         ELSE IF r.what = "raise" \/ r.size # Prod(alon_2d.v)
         THEN \* IndexError, or reshape's ValueError: "Error extracting data"
              /\ log' = Append(log, "extract_failed")
              /\ pc' = "done"
              /\ UNCHANGED <<files, fo_data>>
         ELSE /\ fo_data' = Some(r.sel)
              /\ files' = files \cup ParameterPlots(args)
              /\ pc' = "vtec"
              /\ UNCHANGED log
    /\ UNCHANGED <<script, args, calls, lons, lats, alon, alat, alon_2d,
                   f2, e_peak, edp, aalt, has_edp, tec_data>>
    /\ UNCHANGED yearVars

\* lines 198-239: the size of the integrated TEC vector, or -1 when the
\* integration or the extraction of the hour raises
TecSize(s, na, hour) ==
    IF Len(s) = 3
    THEN IF s[2] = na
         THEN IF IndexOK(hour, s[1]) THEN s[3] ELSE -1
         ELSE IF s[3] = na
         THEN IF IndexOK(hour, s[1]) THEN s[2] ELSE -1
         ELSE -1
    ELSE IF Len(s) = 2
    THEN IF s[2] = na THEN s[1] ELSE s[2]
    ELSE -1

FitTecKeepsSmall(size, grid) ==
    IF size # grid
    THEN IF size > grid THEN grid ELSE size
    ELSE size

\* lines 247-256: the size of the vector that is reshaped to the grid, or -1
\* when "TEC data too small" is raised
FitTec(size, grid) ==
    IF size # grid
    THEN IF size > grid THEN grid ELSE -1
    ELSE size

\* lines 253 and 256: the elements that are plotted, out of an integrated
\* vector of size elements: tec_data[:alon_2d.size] keeps the first n
TecTaken(size, n) == [first |-> 0, n |-> n, of |-> size]

\* line 194 and line 345: is the electron-density profile there
EdpAvailable == has_edp /\ ~edp.isNone

VTecAborts ==
    /\ script = "runner" /\ pc = "vtec"
    /\ IF args.vtec /\ EdpAvailable
       THEN LET size == TecSize(edp.v, Len(aalt.v), args.hour)
                fit == IF size < 0 THEN -1 ELSE FitTec(size, Prod(alon_2d.v))
            IN IF fit < 0
               THEN /\ log' = Append(log, "vtec_failed")
                    /\ pc' = "done"
                    /\ UNCHANGED <<files, tec_data>>
               ELSE /\ tec_data' = Some(TecTaken(size, fit))
                    /\ files' = files \cup {RunnerPath("vTEC", args)}
                    /\ pc' = "profiles"
                    /\ UNCHANGED log
       ELSE /\ pc' = "profiles"
            /\ UNCHANGED <<log, files, tec_data>>
    /\ UNCHANGED <<script, args, calls, lons, lats, alon, alat, alon_2d,
                   f2, e_peak, edp, aalt, has_edp, fo_data>>
    /\ UNCHANGED yearVars

\* lines 193-277: the vTEC stage, in its try block
VTec ==
    /\ script = "runner" /\ pc = "vtec"
    /\ IF args.vtec /\ EdpAvailable
       THEN LET size == TecSize(edp.v, Len(aalt.v), args.hour)
                fit == IF size < 0 THEN -1 ELSE FitTec(size, Prod(alon_2d.v))
            IN IF fit < 0
               THEN /\ log' = Append(log, "vtec_failed")
                    /\ UNCHANGED <<files, tec_data>>
               ELSE /\ tec_data' = Some(TecTaken(size, fit))
                    /\ files' = files \cup {RunnerPath("vTEC", args)}
                    /\ UNCHANGED log
       ELSE UNCHANGED <<log, files, tec_data>>
    /\ pc' = "profiles"
    /\ UNCHANGED <<script, args, calls, lons, lats, alon, alat, alon_2d,
                   f2, e_peak, edp, aalt, has_edp, fo_data>>
    /\ UNCHANGED yearVars

\* lines 286-303: does the extraction of the four time series raise
TimeSeriesRaises(s, es) ==
    IF Len(s) = 2 THEN Len(es) < 2 \/ s[2] < 1 \/ es[2] < 1
    ELSE IF Len(s) = 3
    THEN Len(es) < 3 \/ s[2] < 1 \/ es[2] < 1 \/ s[3] < 1 \/ es[3] < 1
    ELSE Len(s) = 0 \/ Len(es) = 0

\* lines 305-324: ax.plot(ahr, y) needs y's first axis to be as long as ahr
TimeSeriesPlotRaises(s, es) == s[1] # Len(ahr) \/ es[1] # Len(ahr)

\* lines 279-342: single-location time series; nothing here is in a try block
SinglePlots ==
    /\ script = "runner" /\ pc = "plots"
    /\ ~(args.global_map /\ ~alon_2d.isNone)
    /\ IF TimeSeriesRaises(f2.v, e_peak.v)
       THEN /\ pc' = "crashed"
            /\ UNCHANGED files
       ELSE IF TimeSeriesPlotRaises(f2.v, e_peak.v)
       THEN /\ pc' = "crashed"
            /\ UNCHANGED files
       ELSE /\ files' = files \cup {RunnerPath("timeseries", args)}
            /\ pc' = "profiles"
    /\ UNCHANGED <<script, args, calls, log, lons, lats, alon, alat, alon_2d,
                   f2, e_peak, edp, aalt, has_edp, fo_data, tec_data>>
    /\ UNCHANGED yearVars

\* lines 351-372: the density profile and the time-altitude cross-section taken
\* from edp of shape s: raises, plen (-1 for None) and cross (<<>> for None)
ProfileData(s, na, hour) ==
    IF Len(s) = 3
    THEN IF s[2] = na
         THEN [raises |-> ~(IndexOK(hour, s[1]) /\ s[3] >= 1),
               plen |-> s[2], cross |-> <<s[2], s[1]>>]
         ELSE IF s[3] = na
         THEN [raises |-> ~(IndexOK(hour, s[1]) /\ s[2] >= 1),
               plen |-> s[3], cross |-> <<s[3], s[1]>>]
         ELSE [raises |-> FALSE, plen |-> -1, cross |-> <<>>]
    ELSE IF Len(s) = 2
    THEN IF s[1] = Len(ahr)
         THEN [raises |-> ~IndexOK(hour, s[1]),
               plen |-> s[2], cross |-> <<s[2], s[1]>>]
         ELSE [raises |-> s[1] < 1, plen |-> s[2], cross |-> <<>>]
    ELSE [raises |-> Len(s) = 0, plen |-> Prod(s), cross |-> <<>>]

\* lines 374-397: do the two panels raise (x and y of different lengths)
ProfilePlotRaises(d, na) ==
    \/ d.plen >= 0 /\ d.plen # na
    \/ /\ d.cross # <<>>
       /\ d.cross[1] > 1 /\ d.cross[2] > 1
       /\ d.cross # <<na, Len(ahr)>>

\* lines 344-412: the profile stage, in its try block
Profiles ==
    /\ script = "runner" /\ pc = "profiles"
    /\ IF args.profiles /\ EdpAvailable
       THEN LET d == ProfileData(edp.v, Len(aalt.v), args.hour) IN
            IF d.raises \/ ProfilePlotRaises(d, Len(aalt.v))
            THEN /\ log' = Append(log, "profile_failed")
                 /\ UNCHANGED files
            ELSE /\ files' = files \cup {RunnerPath("profiles", args)}
                 /\ UNCHANGED log
       ELSE UNCHANGED <<log, files>>
    /\ pc' = "list"
    /\ UNCHANGED <<script, args, calls, lons, lats, alon, alat, alon_2d,
                   f2, e_peak, edp, aalt, has_edp, fo_data, tec_data>>
    /\ UNCHANGED yearVars

\* lines 414-426: the listing of the PNG files and "Done!"
ListFiles ==
    /\ script = "runner" /\ pc = "list"
    /\ log' = Append(log, "done")
    /\ pc' = "done"
    /\ UNCHANGED <<script, args, calls, files>>
    /\ UNCHANGED runnerVars
    /\ UNCHANGED yearVars

NextRunner ==
    \/ CreateGrid
    \/ Calculate
    \/ GlobalPlots
    \/ SinglePlots
    \/ VTec
    \/ Profiles
    \/ ListFiles

SpecRunner == InitRunner /\ [][NextRunner]_vars

(***************************************************************************)
(* Helpers of the two year scripts                                         *)
(***************************************************************************)
MonthsPerYear == 12

\* bound on the months of a run whose model outcome differs from the first
\* month's
MaxDeviations == 1

IsLeap(y) == y % 4 = 0 /\ (y % 100 # 0 \/ y % 400 = 0)

\* (datetime(first of next month) - datetime(year, month, 1)).days
DaysInMonth(y, m) ==
    IF m = 2 THEN (IF IsLeap(y) THEN 29 ELSE 28)
    ELSE IF m \in {4, 6, 9, 11} THEN 30 ELSE 31

\* datetime(year, month, day, hour) raises ValueError unless 0 <= hour <= 23
DatetimeRaises(hour) == hour < 0 \/ hour > HoursPerDay - 1

\* np.clip(x, lo, hi)
Clip(x, lo, hi) == IF x < lo THEN lo ELSE IF x > hi THEN hi ELSE x

\* the i-th number drawn from np.random seeded with seed, before clipping:
\* seed 0 stands for a quiet sun (every draw below the lower bound)
Draw(seed, i) == IF seed = 0 THEN 60 ELSE 40 + ((seed * 7919 + i * 104729) % 241)

Seeds == {0, 1}

Years == {2023, 2024}

YearHours == {12, 24}

\* an element of the f2['Nm'] array returned by the call src, times num/den
Elem(src, idx) == [nan |-> FALSE, src |-> src, idx |-> idx, num |-> 1, den |-> 1]

\* np.nan
NaN == [nan |-> TRUE, src |-> <<>>, idx |-> <<>>, num |-> 0, den |-> 1]

RECURSIVE GCD(_, _)
GCD(a, b) == IF b = 0 THEN a ELSE GCD(b, a % b)

\* v * (n / d), n > 0 and d > 0
Times(v, n, d) ==
    IF v.nan THEN v
    ELSE LET g == GCD(v.num * n, v.den * d)
         IN [v EXCEPT !.num = (v.num * n) \div g, !.den = (v.den * d) \div g]

\* f"{args.lat}N_{args.lon}E"
YearLocation(a) == <<a.lat, a.lon>>

\* f'{kind}_{location_name}_{args.year}{suffix}.{ext}'
YearPath(kind, a, suffix, ext) == <<kind, YearLocation(a), a.year, suffix, ext>>

\* a formatted number, f"{v:fmt}"
Fmt(fmt, v) == <<fmt, v>>

\* the library's behaviour this month: any outcome, as long as at most
\* MaxDeviations months differ from the first month's
EnvAllows(o) == ~env.set \/ o = env.base \/ env.devs < MaxDeviations

EnvAfter(o) ==
    IF ~env.set THEN [set |-> TRUE, base |-> o, devs |-> 0]
    ELSE IF o = env.base THEN env
    ELSE [env EXCEPT !.devs = env.devs + 1]

(***************************************************************************)
(* The year scripts' Python lists grow by one entry per day.  A list is    *)
(* kept as the sequence of the runs that were appended to it: a run        *)
(* Run(n, per, v, m) stands for n consecutive entries, the j-th of which   *)
(* is RunItem(run, j).  Item(l, i) is l[i - 1] of the Python list and      *)
(* LLen(l) is len(l).                                                      *)
(***************************************************************************)
Run(n, per, v, m) == [n |-> n, per |-> per, v |-> v, m |-> m]

\* n appends of the same value v
Rep(v, n) == IF n <= 0 THEN <<>> ELSE <<Run(n, "same", v, 0)>>

RECURSIVE LLenTo(_, _)
\* the entries of the first k runs of l
LLenTo(l, k) == IF k = 0 THEN 0 ELSE l[k].n + LLenTo(l, k - 1)

LLen(l) == LLenTo(l, Len(l))

\* the first entry of the year (index from 1) that lies in month m
RECURSIVE MonthStart(_, _)
MonthStart(y, m) == IF m = 1 THEN 1 ELSE MonthStart(y, m - 1) + DaysInMonth(y, m - 1)

\* days = (datetime(year, 12, 31) - datetime(year, 1, 1)).days + 1
DaysInYear(y) == MonthStart(y, MonthsPerYear) + DaysInMonth(y, MonthsPerYear) - 1

\* f107_values[i - 1] of generate_f107_timeseries: the sum of the components,
\* clipped (line 63)
DailyF107(seed, i) == Clip(Draw(seed, i), 70, 250)

RECURSIVE SumF107(_, _, _)
\* the sum of the n values f107_values[from - 1 ...]
SumF107(seed, from, n) ==
    IF n <= 0 THEN 0 ELSE DailyF107(seed, from) + SumF107(seed, from + 1, n - 1)

ScaledUnclipped(v, day_f107, sum, n) ==
    IF sum > 70 * n
    THEN LET p == (day_f107 - 70) * n
             q == sum - 70 * n
         IN IF p = 0 THEN Times(v, 1, 2) ELSE Times(v, p, q)
    ELSE v

\* lines 174-175: v * clip((day_f107 - 70) / (avg_f107 - 70), 0.5, 2.0), or
\* v * 1.0 when avg_f107 <= 70, avg_f107 being sum / n
Scaled(v, day_f107, sum, n) ==
    IF sum > 70 * n
    THEN LET p == (day_f107 - 70) * n
             q == sum - 70 * n
         IN IF 2 * p < q THEN Times(v, 1, 2)
            ELSE IF p > 2 * q THEN Times(v, 2, 1)
            ELSE IF p = 0 THEN Times(v, 1, 2)
            ELSE Times(v, p, q)
    ELSE v

RECURSIVE ItemAt(_, _, _)

\* entry i (from 1) of list l
Item(l, i) == ItemAt(l, 1, i)

RECURSIVE SumItems(_, _, _)
\* sum of l[from - 1], ..., n entries
SumItems(l, from, n) ==
    IF n <= 0 THEN 0 ELSE Item(l, from) + SumItems(l, from + 1, n - 1)

EdpCallAvgF107(a, m, j, from, n) ==
    LET date == Item(dates, from + j - 1) IN
    [fn |-> "IRI_density_1day", year |-> date[1], month |-> date[2],
     day |-> date[3], ahr |-> <<a.hour>>, alon |-> alon, alat |-> alat,
     f107 |-> SumItems(f107_values, from, n) \div n]

\* lines 132-139: the call made for the j-th day of month m, whose days are
\* the n entries of dates from index from on
EdpCall(a, m, j, from, n) ==
    LET date == Item(dates, from + j - 1) IN
    [fn |-> "IRI_density_1day", year |-> date[1], month |-> date[2],
     day |-> date[3], ahr |-> <<a.hour>>, alon |-> alon, alat |-> alat,
     f107 |-> Item(f107_values, from + j - 1)]

\* the j-th entry of a run
RunItem(r, j) ==
    IF r.per = "same" THEN r.v
    ELSE IF r.per = "date" THEN <<r.v[1], r.m, j, r.v[2]>>
    ELSE IF r.per = "f107" THEN DailyF107(r.v, r.m + j - 1)
    ELSE IF r.per = "day" THEN [r.v EXCEPT !.src = <<r.m, j>>]
    ELSE IF r.per = "call" THEN EdpCall(r.v.a, r.m, j, r.v.from, r.v.n)
    ELSE \* "scaled": the month's value scaled by the day's F10.7
         Scaled(r.v.val, DailyF107(r.v.seed, r.v.from + j - 1),
                r.v.sum, r.v.days)

\* entry i counted from the start of run k of l
ItemAt(l, k, i) ==
    IF i <= l[k].n THEN RunItem(l[k], i) ELSE ItemAt(l, k + 1, i - l[k].n)

\* dates[i].strftime('%Y-%m-%d') keeps year, month and day
Strftime(d) == <<d[1], d[2], d[3]>>

\* data row i (from 1) of a CSV file c
CsvRow(c, i) ==
    <<Strftime(Item(c.cols[1], i))>> \o
    [k \in 1..4 |-> Fmt(c.fmt[k + 1], Item(c.cols[k + 1], i))]

(***************************************************************************)
(* pyiri_year_plot.py                                                      *)
(***************************************************************************)
YearPlotArgs ==
    {a \in [year : Years, lat : {40}, lon : {-100}, hour : YearHours,
             f107_constant : {0, 150}] :
        a.f107_constant = 150 <=> a.year = 2024}

InitYearPlot ==
    /\ script = "year_plot"
    /\ args \in YearPlotArgs
    /\ rng = 1
    /\ pc = "months"
    /\ calls = <<>>
    /\ log = <<>>
    /\ files = {}
    /\ lons = <<>> /\ lats = <<>>
    /\ alon = <<args.lon>> /\ alat = <<args.lat>>
    /\ alon_2d = None
    /\ f2 = None /\ e_peak = None /\ edp = None /\ aalt = None
    /\ has_edp = FALSE
    /\ fo_data = None
    /\ tec_data = None
    /\ month = 0
    /\ dates = <<>> /\ f107_values = <<>>
    /\ nmf2_values = <<>> /\ nmf2_min = <<>> /\ nmf2_max = <<>>
    /\ all_dates = <<>> /\ all_f107 = <<>> /\ all_nmf2 = <<>>
    /\ model_min = <<>> /\ model_max = <<>>
    /\ nm_data = None /\ nm_min_val = None /\ nm_max_val = None
    /\ csv = None
    /\ env = NoEnv

\* shapes the library may return for f2['Nm'] (one hour, one location)
YearPlotShapes == {<<1, 1, 2>>, <<1, 1, 1>>, <<1, 1>>, <<1, 3>>, <<1>>}

YearPlotOutcomes == {Outcome(1, <<>>)} \cup {Outcome(0, s) : s \in YearPlotShapes}

\* lines 92-98: the month's F10.7
MonthF107(a, m) ==
    IF a.f107_constant # 0 THEN a.f107_constant
    ELSE Clip(Draw(rng, m), 70, 200)

\* lines 102-104
YearPlotCall(a, m) ==
    [fn |-> "IRI_monthly_mean_par", year |-> a.year, month |-> m,
     ahr |-> <<a.hour>>, alon |-> alon, alat |-> alat]

\* lines 108-129: nm_data, nm_min_val, nm_max_val after the extraction from
\* f2['Nm'] of shape s returned for month m (the 2-D one-column branch leaves
\* the two bounds as they were)
ExtractNm(s, m) ==
    IF Len(s) = 3
    THEN LET d == IF s[3] > 1 THEN Elem(<<m>>, <<0, 0, 1>>)
                  ELSE Elem(<<m>>, <<0, 0, 0>>)
         IN [nm_data |-> Some(d),
             nm_min_val |-> Some(Elem(<<m>>, <<0, 0, 0>>)),
             nm_max_val |-> Some(IF s[3] > 1 THEN Elem(<<m>>, <<0, 0, s[3] - 1>>)
                                 ELSE Times(d, 13, 10))]
    ELSE IF Len(s) = 2
    THEN IF s[2] = 1
         THEN [nm_data |-> Some(Elem(<<m>>, <<0, 0>>)),
               nm_min_val |-> nm_min_val, nm_max_val |-> nm_max_val]
         ELSE LET d == IF s[2] > 1 THEN Elem(<<m>>, <<0, 1>>)
                       ELSE Elem(<<m>>, <<0, 0>>)
              IN [nm_data |-> Some(d),
                  nm_min_val |-> Some(Elem(<<m>>, <<0, 0>>)),
                  nm_max_val |-> Some(IF s[2] > 1 THEN Elem(<<m>>, <<0, s[2] - 1>>)
                                      ELSE Times(d, 13, 10))]
    ELSE LET d == IF Len(s) > 0 THEN Elem(<<m>>, <<0>>) ELSE Elem(<<m>>, <<>>)
         IN [nm_data |-> Some(d),
             nm_min_val |-> Some(Times(d, 7, 10)),
             nm_max_val |-> Some(Times(d, 13, 10))]

DayNmF2Scaled(d) == Times(d, 13, 10)

\* lines 137-141: the NmF2 recorded for a day of a month whose value is d
DayNmF2(d) == d

\* lines 143-155: the bounds recorded for a day
DayBounds(x) ==
    IF ~x.nm_min_val.isNone /\ ~x.nm_max_val.isNone
    THEN [min |-> x.nm_min_val.v, max |-> x.nm_max_val.v]
    ELSE [min |-> Times(DayNmF2(x.nm_data.v), 7, 10),
          max |-> Times(DayNmF2(x.nm_data.v), 13, 10)]

\* datetime(args.year, month, day, args.hour) for day in range(1, n + 1)
MonthDates(a, m, n) == <<Run(n, "date", <<a.year, a.hour>>, m)>>

\* lines 79-166: one iteration of the month loop
YearPlotMonth ==
    /\ script = "year_plot" /\ pc = "months"
    /\ LET m == month + 1
           n == DaysInMonth(args.year, m)
           month_f107 == MonthF107(args, m)
       IN
       /\ month' = m
       /\ calls' = calls \o Rep(YearPlotCall(args, m), 1)
       /\ \E o \in YearPlotOutcomes :
            /\ EnvAllows(o)
            /\ env' = EnvAfter(o)
            /\ IF o.raise > 0
               THEN \* the call raises: the handler of line 157
                    /\ log' = Append(log, <<"error_processing_month", m>>)
                    /\ UNCHANGED <<nm_data, nm_min_val, nm_max_val>>
                    /\ IF DatetimeRaises(args.hour)
                       THEN /\ pc' = "crashed"
                            /\ UNCHANGED <<all_dates, all_f107, all_nmf2,
                                           model_min, model_max>>
                       ELSE /\ all_dates' = all_dates \o MonthDates(args, m, n)
                            /\ all_f107' = all_f107 \o Rep(month_f107, n)
                            /\ all_nmf2' = all_nmf2 \o Rep(NaN, n)
                            /\ model_min' = model_min \o Rep(NaN, n)
                            /\ model_max' = model_max \o Rep(NaN, n)
                            /\ pc' = IF m = MonthsPerYear THEN "output" ELSE "months"
               ELSE LET x == ExtractNm(o.shape, m) IN
                    /\ nm_data' = x.nm_data
                    /\ nm_min_val' = x.nm_min_val
                    /\ nm_max_val' = x.nm_max_val
                    /\ IF DatetimeRaises(args.hour)
                       THEN \* line 133 raises, and line 161 raises again
                            /\ log' = Append(log, <<"error_processing_month", m>>)
                            /\ pc' = "crashed"
                            /\ UNCHANGED <<all_dates, all_f107, all_nmf2,
                                           model_min, model_max>>
                       ELSE /\ all_dates' = all_dates \o MonthDates(args, m, n)
                            /\ all_f107' = all_f107 \o Rep(month_f107, n)
                            /\ all_nmf2' = all_nmf2 \o Rep(DayNmF2(x.nm_data.v), n)
                            /\ model_min' = model_min \o Rep(DayBounds(x).min, n)
                            /\ model_max' = model_max \o Rep(DayBounds(x).max, n)
                            /\ pc' = IF m = MonthsPerYear THEN "output" ELSE "months"
                            /\ UNCHANGED log
    /\ UNCHANGED <<script, args, files, csv, rng>>
    /\ UNCHANGED runnerVars
    /\ UNCHANGED <<dates, f107_values, nmf2_values, nmf2_min, nmf2_max>>

\* lines 235-239: the CSV file: the header line, then one row per entry of
\* all_dates, row i formatted from entry i of each list (CsvRow)
YearPlotCsv ==
    [header |-> <<"Date", "F107", "NmF2", "Model_Min", "Model_Max">>,
     n |-> LLen(all_dates),
     fmt |-> <<"%Y-%m-%d", ".1f", ".2e", ".2e", ".2e">>,
     cols |-> <<all_dates, all_f107, all_nmf2, model_min, model_max>>]

\* lines 223 and 234: the two files the script writes
YearPlotPaths(a) ==
    {YearPath("year_plot", a, "", "png"), YearPath("year_data", a, "", "csv")}

\* lines 168-240: the plot and the CSV file
YearPlotOutput ==
    /\ script = "year_plot" /\ pc = "output"
    /\ files' = files \cup YearPlotPaths(args)
    /\ csv' = Some(YearPlotCsv)
    /\ pc' = "done"
    /\ UNCHANGED <<script, args, calls, log, rng, env>>
    /\ UNCHANGED runnerVars
    /\ UNCHANGED <<month, dates, f107_values, nmf2_values, nmf2_min, nmf2_max,
                   all_dates, all_f107, all_nmf2, model_min, model_max,
                   nm_data, nm_min_val, nm_max_val>>

NextYearPlot ==
    \/ YearPlotMonth
    \/ YearPlotOutput

SpecYearPlot == InitYearPlot /\ [][NextYearPlot]_vars

(***************************************************************************)
(* pyiri_year_daily.py                                                     *)
(***************************************************************************)
YearDailyArgs ==
    [year : Years, lat : {40}, lon : {-100}, hour : {12}, use_edp : BOOLEAN]

InitYearDaily ==
    /\ script = "year_daily"
    /\ args \in YearDailyArgs
    /\ rng \in Seeds
    /\ rng = 0 <=> args.year = 2024
    /\ pc = "generate"
    /\ calls = <<>>
    /\ log = <<>>
    /\ files = {}
    /\ lons = <<>> /\ lats = <<>>
    /\ alon = <<args.lon>> /\ alat = <<args.lat>>
    /\ alon_2d = None
    /\ f2 = None /\ e_peak = None /\ edp = None /\ aalt = None
    /\ has_edp = FALSE
    /\ fo_data = None
    /\ tec_data = None
    /\ month = 0
    /\ dates = <<>> /\ f107_values = <<>>
    /\ nmf2_values = <<>> /\ nmf2_min = <<>> /\ nmf2_max = <<>>
    /\ all_dates = <<>> /\ all_f107 = <<>> /\ all_nmf2 = <<>>
    /\ model_min = <<>> /\ model_max = <<>>
    /\ nm_data = None /\ nm_min_val = None /\ nm_max_val = None
    /\ csv = None
    /\ env = NoEnv

\* lines 26-30: dates = [start_date + timedelta(days=i) for i in range(days)]
YearDates(y) == [m \in 1..MonthsPerYear |-> Run(DaysInMonth(y, m), "date", <<y, 0>>, m)]

\* lines 23-65 and line 92: generate_f107_timeseries(args.year)
GenerateF107 ==
    /\ script = "year_daily" /\ pc = "generate"
    /\ dates' = YearDates(args.year)
    /\ f107_values' = <<Run(DaysInYear(args.year), "f107", rng, 1)>>
    /\ pc' = "months"
    /\ UNCHANGED <<script, args, calls, log, files, csv, rng, env, month,
                   nmf2_values, nmf2_min, nmf2_max,
                   all_dates, all_f107, all_nmf2, model_min, model_max,
                   nm_data, nm_min_val, nm_max_val>>
    /\ UNCHANGED runnerVars

\* day-of-month numbers at which a daily call may raise
FailDays == {1, 2, 28}

\* shapes the library may return for f2['Nm'] from IRI_density_1day
EdpNmShapes == {<<1, 1>>, <<1>>, <<>>}

\* shapes the library may return for f2['Nm'] from IRI_monthly_mean_par
MeanNmShapes == {<<1, 1, 2>>, <<1, 1, 1>>, <<1, 1>>, <<1>>}

YearDailyOutcomes(use_edp) ==
    IF use_edp
    THEN {Outcome(0, s) : s \in EdpNmShapes} \cup {Outcome(k, <<1, 1>>) : k \in FailDays}
    ELSE {Outcome(0, s) : s \in MeanNmShapes} \cup {Outcome(1, <<>>)}

\* lines 152-154
MeanCall(a, m) ==
    [fn |-> "IRI_monthly_mean_par", year |-> a.year, month |-> m,
     ahr |-> <<a.hour>>, alon |-> alon, alat |-> alat]

\* lines 142-145: the element taken as nm, as the index into f2['Nm']
EdpNmIndex(s) == IF Len(s) >= 2 THEN <<0, 0>> ELSE IF Len(s) > 0 THEN <<0>> ELSE <<>>

\* lines 157-169: nm_avg, nm_min, nm_max of month m from f2['Nm'] of shape s;
\* indexing [0, 0, 1] raises when the third axis has one entry
MeanNm(s, m) ==
    IF Len(s) = 3
    THEN IF s[3] < 2
         THEN [raises |-> TRUE, avg |-> NaN, min |-> NaN, max |-> NaN]
         ELSE [raises |-> FALSE, avg |-> Elem(<<m>>, <<0, 0, 1>>),
               min |-> Elem(<<m>>, <<0, 0, 0>>),
               max |-> Elem(<<m>>, <<0, 0, s[3] - 1>>)]
    ELSE LET d == IF Len(s) = 2 THEN Elem(<<m>>, <<0, 0>>)
                  ELSE IF Len(s) > 0 THEN Elem(<<m>>, <<0>>)
                  ELSE Elem(<<m>>, <<>>)
         IN [raises |-> FALSE, avg |-> d,
             min |-> Times(d, 7, 10), max |-> Times(d, 13, 10)]

\* k appends, one per day 1..k of month m, of the day's own element times num/den
PerDay(k, m, idx, num, den) ==
    IF k <= 0 THEN <<>>
    ELSE <<Run(k, "day", Times(Elem(<<m, 0>>, idx), num, den), m)>>

\* the calls made for the days 1..k of month m, in order
DayCalls(a, k, m, from, n) ==
    <<Run(k, "call", [a |-> a, from |-> from, n |-> n], m)>>

\* lines 183-189: the handler appends NaN once per day of the month
NaNFill(n) == Rep(NaN, n)

\* lines 102-189: one iteration of the month loop
YearDailyMonth ==
    /\ script = "year_daily" /\ pc = "months"
    /\ LET m == month + 1
           from == MonthStart(args.year, m)
           n == DaysInMonth(args.year, m)
       IN
       /\ month' = m
       /\ pc' = IF m = MonthsPerYear THEN "output" ELSE "months"
       /\ \E o \in YearDailyOutcomes(args.use_edp) :
            /\ EnvAllows(o)
            /\ env' = EnvAfter(o)
            /\ IF args.use_edp
               THEN LET made == IF o.raise > 0 THEN o.raise ELSE n
                        good == IF o.raise > 0 THEN o.raise - 1 ELSE n
                        idx == EdpNmIndex(o.shape)
                    IN /\ calls' = calls \o DayCalls(args, made, m, from, n)
                       /\ nmf2_values' = nmf2_values \o PerDay(good, m, idx, 1, 1)
                               \o (IF o.raise > 0 THEN NaNFill(n) ELSE <<>>)
                       /\ nmf2_min' = nmf2_min \o PerDay(good, m, idx, 4, 5)
                               \o (IF o.raise > 0 THEN NaNFill(n) ELSE <<>>)
                       /\ nmf2_max' = nmf2_max \o PerDay(good, m, idx, 6, 5)
                               \o (IF o.raise > 0 THEN NaNFill(n) ELSE <<>>)
                       /\ log' = Append(log, IF o.raise > 0 THEN <<"error", m>>
                                             ELSE <<"ok", m>>)
               ELSE LET x == MeanNm(o.shape, m) IN
                    /\ calls' = calls \o Rep(MeanCall(args, m), 1)
                    /\ IF o.raise > 0 \/ x.raises
                       THEN /\ nmf2_values' = nmf2_values \o NaNFill(n)
                            /\ nmf2_min' = nmf2_min \o NaNFill(n)
                            /\ nmf2_max' = nmf2_max \o NaNFill(n)
                            /\ log' = Append(log, <<"error", m>>)
                       ELSE /\ nmf2_values' = nmf2_values \o
                                <<Run(n, "scaled",
                                      [val |-> x.avg, seed |-> rng,
                                       from |-> from, days |-> n,
                                       sum |-> SumF107(rng, from, n)], m)>>
                            /\ nmf2_min' = nmf2_min \o Rep(x.min, n)
                            /\ nmf2_max' = nmf2_max \o Rep(x.max, n)
                            /\ log' = Append(log, <<"ok", m>>)
    /\ UNCHANGED <<script, args, files, csv, rng, dates, f107_values,
                   all_dates, all_f107, all_nmf2, model_min, model_max,
                   nm_data, nm_min_val, nm_max_val>>
    /\ UNCHANGED runnerVars

\* line 266
Suffix(a) == IF a.use_edp THEN "_daily" ELSE ""

\* lines 267 and 278: the two files the script writes
YearDailyPaths(a) ==
    {YearPath("year_plot", a, Suffix(a), "png"),
     YearPath("year_data", a, Suffix(a), "csv")}

\* lines 279-283
YearDailyCsv ==
    [header |-> <<"Date", "F107", "NmF2", "NmF2_Min", "NmF2_Max">>,
     n |-> LLen(dates),
     fmt |-> <<"%Y-%m-%d", ".1f", ".3e", ".3e", ".3e">>,
     cols |-> <<dates, f107_values, nmf2_values, nmf2_min, nmf2_max>>]

\* line 236: ax2.plot(dates, nmf2_values) raises ValueError when x and y have
\* different lengths
PlotRaises == LLen(nmf2_values) # LLen(dates)

\* lines 191-293: the plot and the CSV file; nothing here is in a try block
YearDailyOutput ==
    /\ script = "year_daily" /\ pc = "output"
    /\ IF PlotRaises
       THEN /\ pc' = "crashed"
            /\ UNCHANGED <<files, csv>>
       ELSE /\ files' = files \cup YearDailyPaths(args)
            /\ csv' = Some(YearDailyCsv)
            /\ pc' = "done"
    /\ UNCHANGED <<script, args, calls, log, rng, env>>
    /\ UNCHANGED runnerVars
    /\ UNCHANGED <<month, dates, f107_values, nmf2_values, nmf2_min, nmf2_max,
                   all_dates, all_f107, all_nmf2, model_min, model_max,
                   nm_data, nm_min_val, nm_max_val>>

NextYearDaily ==
    \/ GenerateF107
    \/ YearDailyMonth
    \/ YearDailyOutput

SpecYearDaily == InitYearDaily /\ [][NextYearDaily]_vars

\* the two year scripts, for the claims that speak of both
InitYear == InitYearPlot \/ InitYearDaily

NextYear == NextYearPlot \/ NextYearDaily

SpecYear == InitYear /\ [][NextYear]_vars

(***************************************************************************)
(* Claims about pyiri_runner.py                                            *)
(***************************************************************************)
InLog(m) == \E i \in 1..Len(log) : log[i] = m

\* the plotting stage is over (or was never entered because main returned)
PastPlots == pc \in {"vtec", "profiles", "list", "done", "crashed"}

\* C1: in the runner every exception of the model call or of the
\* shape-dependent extraction, in global-map and in single-location mode, is
\* caught and logged: the script never ends with an uncaught exception.
C1_NoUncaughtException == script = "runner" => pc # "crashed"

\* C6: the runner calls the external model exactly once per run, after the
\* grid is built and before any PNG is written; when the call fails the run
\* ends and no PNG is written.
C6_OneCallBeforePlots ==
    script = "runner" =>
        /\ (pc \in {"grid", "calc"} => calls = <<>> /\ files = {})
        /\ (pc \notin {"grid", "calc"} =>
               /\ Len(calls) = 1
               /\ calls[1].alon = alon /\ calls[1].alat = alat
               /\ Len(alon) >= 1)
        /\ (InLog("calculation_failed") => pc = "done" /\ files = {})

C6_Witness ==
    /\ script = "runner" /\ pc = "done"
    /\ InLog("calculation_failed")
    /\ Len(calls) = 1 /\ files = {}

\* C8 as stated: in every mode the call of the external model carries the
\* values of --year, --month, --day, --f107 and the lat/lon grid.
C8_AllFlagsPassed ==
    script = "runner" =>
        \A i \in 1..Len(calls) :
            /\ calls[i].year = args.year /\ calls[i].month = args.month
            /\ calls[i].alon = alon /\ calls[i].alat = alat
            /\ "day" \in DOMAIN calls[i] /\ calls[i].day = args.day
            /\ "f107" \in DOMAIN calls[i] /\ calls[i].f107 = args.f107

\* C8 amended: --year, --month and the grid are passed in every mode; --day
\* and --f107 are passed exactly when one of --daily, --profiles, --vtec is
\* given, and are not passed (the monthly-mean entry point has no such
\* arguments) otherwise.
C8_FlagsPassedByMode ==
    script = "runner" =>
        \A i \in 1..Len(calls) :
            /\ calls[i].year = args.year /\ calls[i].month = args.month
            /\ calls[i].alon = alon /\ calls[i].alat = alat
            /\ IF args.daily \/ args.profiles \/ args.vtec
               THEN /\ "day" \in DOMAIN calls[i] /\ calls[i].day = args.day
                    /\ "f107" \in DOMAIN calls[i] /\ calls[i].f107 = args.f107
               ELSE "day" \notin DOMAIN calls[i] /\ "f107" \notin DOMAIN calls[i]

C8_Witness ==
    /\ script = "runner" /\ Len(calls) = 1
    /\ ~args.daily /\ ~args.profiles /\ ~args.vtec
    /\ args.f107 = 150
    /\ calls[1].fn = "IRI_monthly_mean_par"

\* C9: in global-map mode, once the model call and the extraction have
\* succeeded, the map of P in {foF2, hmF2, NmF2} is written if and only if P
\* or 'all' is listed in --parameters.
C9_ParameterPlots ==
    (script = "runner" /\ args.global_map /\ PastPlots /\ ~fo_data.isNone) =>
        \A p \in {"foF2", "hmF2", "NmF2"} :
            RunnerPath(p, args) \in files
                <=> (p \in args.parameters \/ "all" \in args.parameters)

C9_Witness ==
    /\ script = "runner" /\ args.global_map /\ pc = "done"
    /\ ~fo_data.isNone
    /\ args.parameters = {"all"}
    /\ RunnerPath("hmF2", args) \in files

\* C10: a vTEC plot is written only with --vtec and --global-map, a profile
\* plot only with --profiles, and in single-location mode the plotting stage
\* writes exactly one time-series PNG whatever --parameters and --vtec are.
C10_PlotsByFlags ==
    script = "runner" =>
        /\ (RunnerPath("vTEC", args) \in files => args.vtec /\ args.global_map)
        /\ (RunnerPath("profiles", args) \in files => args.profiles)
        /\ (~args.global_map /\ InLog("calculation_complete") /\ PastPlots =>
               files \ {RunnerPath("profiles", args)}
                   = {RunnerPath("timeseries", args)})

(***************************************************************************)
(* Claims about the year scripts                                           *)
(***************************************************************************)
\* main() has returned, or has ended in an uncaught exception
RunEnded == pc \in {"done", "crashed"}

\* the month processed last ended in its except handler
LastMonthFailed ==
    /\ month >= 1 /\ Len(log) > 0
    /\ log[Len(log)] \in {<<"error_processing_month", month>>, <<"error", month>>}

\* entry j of the last n entries of list l
LastItem(l, n, j) == Item(l, LLen(l) - n + j)

RECURSIVE AllLastTo(_, _, _, _)
\* the last n entries of the first k runs of l all equal v
AllLastTo(l, k, n, v) ==
    IF n <= 0 THEN TRUE
    ELSE IF k = 0 THEN FALSE
    ELSE /\ IF l[k].per = "same" THEN l[k].v = v
            ELSE \A j \in 1..l[k].n : j > l[k].n - n => RunItem(l[k], j) = v
         /\ AllLastTo(l, k - 1, n - l[k].n, v)

\* l has at least n entries and the last n all equal v
AllLast(l, n, v) == AllLastTo(l, Len(l), n, v)

\* C2: in the Year Monthly Generator, for any inputs (any integer --hour
\* included), an exception raised while a month is processed never leaves
\* the month's handler: every day of the month is recorded with NaN for NmF2,
\* Model_Min and Model_Max, and the loop goes on with the next month.
C2_MonthFailureContained ==
    script = "year_plot" =>
        /\ pc # "crashed"
        /\ (LastMonthFailed =>
               LET n == DaysInMonth(args.year, month) IN
               /\ AllLast(all_nmf2, n, NaN)
               /\ AllLast(model_min, n, NaN)
               /\ AllLast(model_max, n, NaN)
               /\ pc = IF month = MonthsPerYear THEN "output" ELSE "months")

\* C3: in the Year Daily Generator a month whose model call or extraction
\* raises does not stop the run: the later months are processed and the year
\* plot and the CSV file are written at the end, whichever months failed.
C3_FailedMonthsDoNotStopRun ==
    script = "year_daily" =>
        /\ pc # "crashed"
        /\ (pc = "done" =>
               /\ month = MonthsPerYear
               /\ YearPath("year_plot", args, Suffix(args), "png") \in files
               /\ YearPath("year_data", args, Suffix(args), "csv") \in files)

\* C4: in monthly-mean mode (Year Monthly Generator, Year Daily Generator
\* without --use-edp) the model is called exactly once for each month 1..12,
\* in increasing order, whether or not calls fail: no retry, no month skipped.
C4_OneCallPerMonth ==
    (script = "year_plot" \/ (script = "year_daily" /\ ~args.use_edp)) =>
        /\ LLen(calls) = month
        /\ \A i \in 1..LLen(calls) :
             /\ Item(calls, i).fn = "IRI_monthly_mean_par"
             /\ Item(calls, i).month = i
             /\ Item(calls, i).year = args.year
        /\ (RunEnded => LLen(calls) = MonthsPerYear)

\* the date of a call of the day-resolved entry point
CallDate(c) == <<c.year, c.month, c.day>>

\* the calls made for the month processed last: the last run of calls
LastCalls == calls[Len(calls)]

\* C5: with --use-edp the model is called once per calendar day of the year,
\* in date order, each call with that day's own F10.7 value; when a call
\* fails the rest of that month is not attempted and the calls resume with
\* the first day of the next month.  (Stated for the calls of the month
\* processed last and for where they start; every month is the last one in
\* the state that follows it.)
C5_DailyCalls ==
    (script = "year_daily" /\ args.use_edp /\ pc # "generate") =>
        /\ (month = 0 => calls = <<>>)
        /\ (month >= 1 =>
              LET k == LastCalls.n
                  first == MonthStart(args.year, month)
              IN
              /\ Len(calls) = month
              /\ k >= 1 /\ k <= DaysInMonth(args.year, month)
              /\ (~LastMonthFailed => k = DaysInMonth(args.year, month))
              /\ \A j \in 1..k :
                   LET c == RunItem(LastCalls, j) IN
                   /\ c.fn = "IRI_density_1day"
                   /\ CallDate(c) = <<args.year, month, j>>
                   /\ Item(dates, first + j - 1) = <<args.year, month, j, 0>>
                   /\ c.f107 = Item(f107_values, first + j - 1))

C5_Witness ==
    /\ script = "year_daily" /\ args.use_edp /\ pc = "output"
    /\ rng = 1
    /\ \E i \in 1..Len(log) : log[i] = <<"error", 3>>
    /\ ~LastMonthFailed
    /\ LLen(calls) = DaysInYear(args.year) - DaysInMonth(args.year, 3) + 2

\* C7 as stated: the Year Monthly Generator derives each day's recorded NmF2
\* by scaling the month's value against the model's bounds, i.e. what is
\* recorded for a day is the month's value times a scale factor, not the
\* month's value itself.
C7_DailyValuesScaled ==
    (script = "year_plot" /\ month >= 1 /\ pc # "crashed" /\ ~LastMonthFailed) =>
        LET n == DaysInMonth(args.year, month) IN
        \A j \in 1..n : LastItem(all_nmf2, n, j) # nm_data.v

\* C7 amended: the Year Monthly Generator calls the monthly-mean entry point
\* only and records for every day of a month the month's NmF2 value itself,
\* unscaled; the model's bounds are recorded beside it as Model_Min and
\* Model_Max and do not enter the NmF2 value.
C7_DailyValuesUnscaled ==
    script = "year_plot" =>
        /\ LLen(calls) = month
        /\ (month >= 1 => Item(calls, month).fn = "IRI_monthly_mean_par")
        /\ (month >= 1 /\ pc # "crashed" /\ ~LastMonthFailed) =>
               LET n == DaysInMonth(args.year, month) IN
               /\ nm_data.v.src = <<month>>
               /\ nm_data.v.num = 1 /\ nm_data.v.den = 1
               /\ AllLast(all_nmf2, n, nm_data.v)

C7_Witness ==
    /\ script = "year_plot" /\ month = 3 /\ pc = "months" /\ ~LastMonthFailed
    /\ LastItem(model_min, 1, 1) # LastItem(all_nmf2, 1, 1)
    /\ LastItem(model_max, 1, 1) # LastItem(all_nmf2, 1, 1)

\* the fixed header line of the script's CSV file
CsvHeader ==
    IF script = "year_plot"
    THEN <<"Date", "F107", "NmF2", "Model_Min", "Model_Max">>
    ELSE <<"Date", "F107", "NmF2", "NmF2_Min", "NmF2_Max">>

\* C11: each year script's CSV is its fixed header line followed by exactly
\* one data row per calendar day of the requested year (365, or 366 in a leap
\* year), in increasing date order, whichever months' model calls failed: a
\* run that has ended has written such a file.
C11_CsvRowPerDay ==
    (script \in {"year_plot", "year_daily"} /\ RunEnded) =>
        /\ ~csv.isNone
        /\ csv.v.header = CsvHeader
        /\ csv.v.n = DaysInYear(args.year)
        /\ csv.v.n = IF IsLeap(args.year) THEN 366 ELSE 365
        /\ \A m \in 1..MonthsPerYear : \A j \in 1..DaysInMonth(args.year, m) :
             CsvRow(csv.v, MonthStart(args.year, m) + j - 1)[1]
                 = <<args.year, m, j>>

\* the model call of the runner succeeded in global-map mode and the plotting
\* stage is over
GlobalExtracted ==
    /\ script = "runner" /\ args.global_map
    /\ InLog("calculation_complete") /\ PastPlots

\* the time index --hour selects a row of an array with n rows
HourInRange(n) == args.hour >= -n /\ args.hour < n

\* C12: in global-map mode the runner normalizes the model output by its
\* number of axes: with 2 axes it takes the row at time index --hour over all
\* locations, with 3 axes that row at the last index of the third axis, and
\* with any other number of axes, or when the row cannot be reshaped to the
\* lat/lon grid, it ends the run without writing any plot.
C12_GlobalExtraction ==
    GlobalExtracted =>
        LET s == f2.v
            grid == Len(lats) * Len(lons)
        IN
        IF Len(s) \in {2, 3} /\ HourInRange(s[1]) /\ s[2] = grid
        THEN /\ ~fo_data.isNone
             /\ fo_data.v[1] = args.hour % s[1]
             /\ (Len(s) = 2 => Len(fo_data.v) = 1)
             /\ (Len(s) = 3 => fo_data.v = <<args.hour % s[1], s[3] - 1>>)
             /\ ParameterPlots(args) \subseteq files
        ELSE /\ fo_data.isNone
             /\ pc = "done"
             /\ files = {}

C12_Witness ==
    /\ GlobalExtracted /\ Len(f2.v) = 3
    /\ fo_data = Some(<<12, 1>>)
    /\ RunnerPath("foF2", args) \in files

\* the three year-run modes
YearModes == {"monthly", "daily", "daily_edp"}

\* the mode of this run
YearMode ==
    IF script = "year_plot" THEN "monthly"
    ELSE IF args.use_edp THEN "daily_edp" ELSE "daily"

\* the paths a run in mode md writes for the year and location of a
ModePaths(md, a) ==
    IF md = "monthly" THEN YearPlotPaths(a)
    ELSE YearDailyPaths([year |-> a.year, lat |-> a.lat, lon |-> a.lon,
                         hour |-> a.hour, use_edp |-> md = "daily_edp"])

\* C13: for the same year, location and output directory no two of the
\* year-run modes (Year Monthly Generator, Year Daily Generator without
\* --use-edp, Year Daily Generator with --use-edp) write the same file path:
\* what a finished run has written is no path of another mode.
C13_NoSharedPaths ==
    (script \in {"year_plot", "year_daily"} /\ pc = "done") =>
        \A md \in YearModes \ {YearMode} : files \cap ModePaths(md, args) = {}

\* C14: a failure inside the vTEC stage aborts only that stage: the parameter
\* plots already written stay written and the profile stage still runs when
\* --profiles is given; a failure inside the profile stage still lets the
\* final PNG listing and the 'Done' message run.
C14_StageFailureIsolated ==
    script = "runner" =>
        /\ (InLog("vtec_failed") =>
              /\ pc \in {"profiles", "list", "done"}
              /\ ParameterPlots(args) \subseteq files
              /\ (args.profiles /\ pc \in {"list", "done"} =>
                     \/ RunnerPath("profiles", args) \in files
                     \/ InLog("profile_failed"))
              /\ (pc = "done" => InLog("done")))
        /\ (InLog("profile_failed") =>
              /\ pc \in {"list", "done"}
              /\ (pc = "done" => InLog("done")))

C14_Witness ==
    /\ script = "runner" /\ pc = "done"
    /\ InLog("vtec_failed") /\ InLog("done")
    /\ args.profiles /\ RunnerPath("profiles", args) \in files
    /\ args.parameters = {"hmF2", "NmF2"}
    /\ RunnerPath("NmF2", args) \in files

\* C15: after a successful model call the electron-density profile is
\* available (has_edp true and edp not None) if and only if at least one of
\* --daily, --profiles, --vtec was given; the day-resolved entry point is used
\* exactly in that case and the monthly-mean entry point otherwise; so the
\* vTEC and profile stages never run without an electron-density profile.
C15_EdpIffFlags ==
    (script = "runner" /\ InLog("calculation_complete")) =>
        LET flags == args.daily \/ args.profiles \/ args.vtec IN
        /\ (has_edp /\ ~edp.isNone) <=> flags
        /\ Len(calls) = 1
        /\ calls[1].fn = IF flags THEN "IRI_density_1day"
                         ELSE "IRI_monthly_mean_par"
        /\ (\/ RunnerPath("vTEC", args) \in files
            \/ RunnerPath("profiles", args) \in files
            \/ InLog("vtec_failed")
            \/ InLog("profile_failed")) => (has_edp /\ ~edp.isNone)
        /\ (~flags => edp.isNone /\ aalt.isNone /\ ~has_edp)

C15_Witness ==
    /\ script = "runner" /\ InLog("calculation_complete")
    /\ ~args.daily /\ ~args.vtec /\ args.profiles
    /\ has_edp /\ ~edp.isNone
    /\ RunnerPath("profiles", args) \in files

\* the vTEC stage of a global-map run has been entered and is over
VTecRan ==
    /\ script = "runner" /\ args.global_map /\ args.vtec
    /\ ~fo_data.isNone /\ pc \in {"profiles", "list", "done"}

\* the number of elements of the integrated TEC vector (-1: none, the
\* integration raised)
RawTecSize == TecSize(edp.v, Len(aalt.v), args.hour)

\* C16: in the vTEC stage, an integrated TEC vector with more elements than
\* the lat/lon grid is truncated to its first grid-size elements and plotted;
\* with fewer elements the stage fails and no vTEC plot is written; so a vTEC
\* plot is written only from a vector of exactly grid-size elements.
C16_TecTruncation ==
    VTecRan =>
        LET grid == Len(lats) * Len(lons)
            written == RunnerPath("vTEC", args) \in files
        IN
        /\ (RawTecSize > grid =>
               /\ written /\ ~tec_data.isNone
               /\ tec_data.v.first = 0 /\ tec_data.v.n = grid
               /\ tec_data.v.of = RawTecSize)
        /\ (RawTecSize < grid =>
               ~written /\ tec_data.isNone /\ InLog("vtec_failed"))
        /\ (written => ~tec_data.isNone /\ tec_data.v.n = grid)

C16_Witness ==
    /\ VTecRan
    /\ RawTecSize = Len(lats) * Len(lons) + 1
    /\ RunnerPath("vTEC", args) \in files
    /\ tec_data.v.n = Len(lats) * Len(lons)

\* the Year Daily Generator without --use-edp has processed month `month`
\* without an error; the values of its days are then the last run appended to
\* nmf2_values
MeanMonthDone ==
    /\ script = "year_daily" /\ ~args.use_edp
    /\ month >= 1 /\ ~LastMonthFailed

\* C17: without --use-edp each day's recorded NmF2 is the month's value
\* times the scale (day_f107 - 70) / (avg_f107 - 70) clipped to [0.5, 2.0],
\* the scale being 1 when the month's average F10.7 is not above 70; no
\* division by zero occurs, every recorded value lies between 0.5 and 2 times
\* the month's value, and NmF2_Min and NmF2_Max are the same for all days of
\* a month.
C17_DailyScale ==
    /\ (script = "year_daily" /\ ~args.use_edp) => pc # "crashed"
    /\ MeanMonthDone =>
         LET n == DaysInMonth(args.year, month)
             first == MonthStart(args.year, month)
             sum == SumItems(f107_values, first, n)
             q == sum - 70 * n
             days == nmf2_values[Len(nmf2_values)]
             idx == RunItem(days, 1).idx
             nm_min == LastItem(nmf2_min, n, 1)
             nm_max == LastItem(nmf2_max, n, 1)
         IN
         /\ days.n = n
         /\ AllLast(nmf2_min, n, nm_min)
         /\ AllLast(nmf2_max, n, nm_max)
         /\ \A j \in 1..n :
            LET x == RunItem(days, j)
                p == (Item(f107_values, first + j - 1) - 70) * n
            IN
            /\ ~x.nan /\ x.src = <<month>>
            /\ x.idx = idx
            /\ 2 * x.num >= x.den /\ x.num <= 2 * x.den
            /\ IF sum <= 70 * n THEN x.num = x.den
               ELSE IF 2 * p < q THEN 2 * x.num = x.den
               ELSE IF p > 2 * q THEN x.num = 2 * x.den
               ELSE x.num * q = x.den * p

C17_Witness ==
    /\ MeanMonthDone /\ month = 3
    /\ LET n == DaysInMonth(args.year, month) IN
       /\ \E j \in 1..n :
            LET x == LastItem(nmf2_values, n, j) IN
            /\ x.num # x.den
            /\ 2 * x.num > x.den /\ x.num < 2 * x.den
       /\ \E j \in 1..n : LET x == LastItem(nmf2_values, n, j) IN x.num = 2 * x.den
       /\ \E j \in 1..n : LET x == LastItem(nmf2_values, n, j) IN 2 * x.num = x.den

\* a recorded value is that of day j of month m: NaN for a failed month, the
\* month's element (monthly-mean mode) or the day's own element (--use-edp)
BelongsTo(x, m, j) ==
    x.nan \/ x.src = (IF args.use_edp THEN <<m, j>> ELSE <<m>>)

\* C18: in the Year Daily Generator, after the month loop has finished,
\* nmf2_values, nmf2_min and nmf2_max each hold exactly one entry per date
\* and entry i belongs to dates[i], in both modes, also with --use-edp when a
\* model call fails partway through a month.
C18_ListsAligned ==
    (script = "year_daily" /\ pc \in {"output", "done", "crashed"}) =>
        /\ LLen(dates) = DaysInYear(args.year)
        /\ LLen(nmf2_values) = LLen(dates)
        /\ LLen(nmf2_min) = LLen(dates)
        /\ LLen(nmf2_max) = LLen(dates)
        /\ \A m \in 1..MonthsPerYear : \A j \in 1..DaysInMonth(args.year, m) :
             LET i == MonthStart(args.year, m) + j - 1 IN
             /\ Item(dates, i) = <<args.year, m, j, 0>>
             /\ BelongsTo(Item(nmf2_values, i), m, j)
             /\ BelongsTo(Item(nmf2_min, i), m, j)
             /\ BelongsTo(Item(nmf2_max, i), m, j)

\* C19: in the Year Monthly Generator the Model_Min and Model_Max recorded
\* for the days of a month are derived only from that month's model output
\* (its solar-axis entries, or 0.7 and 1.3 times that month's NmF2), never
\* from the output of an earlier month, whatever shapes and failures the 12
\* calls produce.
C19_BoundsFromSameMonth ==
    (script = "year_plot" /\ month >= 1 /\ pc # "crashed" /\ ~LastMonthFailed) =>
        LET n == DaysInMonth(args.year, month) IN
        \A j \in 1..n :
            /\ ~LastItem(model_min, n, j).nan
            /\ LastItem(model_min, n, j).src = <<month>>
            /\ ~LastItem(model_max, n, j).nan
            /\ LastItem(model_max, n, j).src = <<month>>

\* C20: in global-map mode, for every positive --resolution, every grid
\* latitude lies in [-90, 90] and every grid longitude in [-180, 180), and
\* the flattened latitude and longitude vectors passed to the model have the
\* same length, (number of latitudes) x (number of longitudes).
C20_GridRanges ==
    (script = "runner" /\ args.global_map /\ pc # "grid") =>
        /\ \A i \in 1..Len(lats) : lats[i] >= -90 /\ lats[i] <= 90
        /\ \A i \in 1..Len(lons) : lons[i] >= -180 /\ lons[i] < 180
        /\ \A i \in 1..Len(alat) : alat[i] >= -90 /\ alat[i] <= 90
        /\ \A i \in 1..Len(alon) : alon[i] >= -180 /\ alon[i] < 180
        /\ Len(alon) = Len(alat)
        /\ Len(alon) = Len(lats) * Len(lons)
        /\ \A i \in 1..Len(calls) :
             calls[i].alon = alon /\ calls[i].alat = alat


====
